---- MODULE Spec2Model ----
(***************************************************************************)
(* Model of autopush/router/fcm.py: FCMRouter, the FCM bridge of autopush. *)
(*                                                                         *)
(* Python values are modelled as follows.                                  *)
(*   - a dict is a function whose DOMAIN is the set of keys present;       *)
(*     d.get(k, default) is Get(d, k, default), "k in d" is                *)
(*     k \in DOMAIN d, d[k] = v is Put(d, k, v);                           *)
(*   - an object attribute that is None (notification.data,                *)
(*     notification.ttl) is a key absent from the object's function;       *)
(*   - None stored in a string-valued slot is the reserved string None;    *)
(*   - a raised exception and a returned RouterResponse are records        *)
(*     with a kind field and the keyword arguments the code passes.        *)
(***************************************************************************)
EXTENDS Integers, Sequences, FiniteSets, TLC

VARIABLES
    router_conf,    \* FCMRouter.config: the router_conf dict given to __init__
    router_data,    \* the device's routing data, as the registry holds it
    metrics,        \* ap_settings.metrics: counter name -> number of increments
    registered,     \* the last register call on the caller's context
    response,       \* the last amend_endpoint_response call on the caller's context
    pc,             \* per worker: position of the dispatch handed to it
    notification,   \* per worker: _route's notification argument
    route_data,     \* per worker: _route's router_data argument
    fcm_calls,      \* per worker: the notify_single_device calls made
    reply,          \* per worker: what the gateway client returned or raised
    outcome,        \* per worker: what the dispatch returned or raised
    log             \* per worker: the log records the dispatch emitted

vars == <<router_conf, router_data, metrics, registered, response, pc,
          notification, route_data, fcm_calls, reply, outcome, log>>

----------------------------------------------------------------------------
(* Python dict and truthiness helpers *)

EmptyDict == <<>>

None == "None"

Get(d, k, default) == IF k \in DOMAIN d THEN d[k] ELSE default

Put(d, k, v) == (k :> v) @@ d

\* bool(s) of a str-or-None slot read through d.get(k)
TruthyStr(d, k) == k \in DOMAIN d /\ d[k] # "" /\ d[k] # None

\* bool(n) of an int-or-None slot read through d.get(k)
TruthyInt(d, k) == k \in DOMAIN d /\ d[k] # 0

\* bool(b) of a bytes-or-None slot
TruthyBytes(d, k) == k \in DOMAIN d /\ Len(d[k]) > 0

Min(a, b) == IF a <= b THEN a ELSE b

Max(a, b) == IF a >= b THEN a ELSE b

----------------------------------------------------------------------------
(* Class attributes of FCMRouter *)

MAX_TTL == 2419200

reasonTable ==
    [ MissingRegistration |->
        [msg |-> "'to' or 'registration_id' is blank or invalid: {regid}",
         err |-> 500, errno |-> 1],
      InvalidRegistration |->
        [msg |-> "registration_id is invalid: {regid}",
         err |-> 410, errno |-> 105],
      NotRegistered |->
        [msg |-> "device has unregistered with FCM: {regid}",
         err |-> 410, errno |-> 103],
      InvalidPackageName |->
        [msg |-> "Invalid Package Name specified",
         err |-> 500, errno |-> 2, crit |-> TRUE],
      MismatchSenderid |->
        [msg |-> "Invalid SenderID used: {senderid}",
         err |-> 410, errno |-> 105, crit |-> TRUE],
      MessageTooBig |->
        [msg |-> "Message length was too big: {nlen}",
         err |-> 413, errno |-> 104],
      InvalidDataKey |->
        [msg |-> "Payload contains an invalid or restricted key value",
         err |-> 500, errno |-> 3, crit |-> TRUE],
      InvalidTtl |->
        [msg |-> "Invalid TimeToLive {ttl}",
         err |-> 400, errno |-> 111],
      Unavailable |->
        [msg |-> "Message has timed out or device is unavailable",
         err |-> 200, errno |-> 0],
      InternalServerError |->
        [msg |-> "FCM internal server error",
         err |-> 500, errno |-> 999],
      DeviceMessageRateExceeded |->
        [msg |-> "Too many messages for this device",
         err |-> 503, errno |-> 4],
      TopicsMessageRateExceeded |->
        [msg |-> "Too many subscribers for this topic",
         err |-> 503, errno |-> 5, crit |-> TRUE],
      Unreported |->
        [msg |-> "Error has no reported reason.",
         err |-> 500, errno |-> 999, crit |-> TRUE] ]

----------------------------------------------------------------------------
(* Instance attributes set by __init__ from router_conf and ap_settings *)

min_ttl == Get(router_conf, "ttl", 60)

dryRun == Get(router_conf, "dryrun", FALSE)

collapseKey == Get(router_conf, "collapseKey", "webpush")

senderID == router_conf["senderID"]

auth == router_conf["auth"]

endpoint_url == "https://push.example"

----------------------------------------------------------------------------
(* Bounds and input sets *)

\* the cap on the gateway calls counted in metrics (attempted + connection_err)
MaxAttempts == 1

\* the max_data value of the configuration that sets one
SmallMaxData == 2

\* the threads of the pool deferToThread hands dispatches to
Workers == {"w1", "w2"}

\* the thread used when dispatches are taken one at a time
Serial == {"w1"}

Counters ==
    { "updates.client.bridge.fcm.connection_err",
      "updates.client.bridge.fcm.attempted",
      "updates.client.bridge.fcm.failed.rereg",
      "updates.client.bridge.fcm.failed",
      "updates.client.bridge.fcm.succeeded" }

BaseConf == [senderID |-> "sid", auth |-> "key"]

RouterConfs ==
    { BaseConf,
      Put(BaseConf, "ttl", 3000000),
      Put(BaseConf, "max_data", SmallMaxData),
      Put(BaseConf, "dryrun", TRUE) }

\* the connect info a client registers with
ConnectInfos ==
    { EmptyDict,
      [dryrun |-> TRUE],
      [token |-> ""],
      [token |-> "tok"],
      [token |-> "tok", dryrun |-> TRUE] }

AppIds == {"sid", "SID", ""}

Bytes(n) == [i \in 1..n |-> 0]

BaseNotification ==
    [channel_id |-> [hex |-> "8f3c0a6e1d2b4c5f9a7e6d5c4b3a2f1e"],
     version |-> "v1",
     headers |-> EmptyDict]

Headers == [encoding |-> "aesgcm", encryption |-> "salt=s"]

Notifications ==
    { BaseNotification } \cup
    { Put(BaseNotification, "ttl", t) : t \in {0, 30, 100, MAX_TTL, 99999999} } \cup
    { Put(Put(BaseNotification, "headers", Headers), "data", Bytes(n)) :
          n \in {0, SmallMaxData, SmallMaxData + 1} } \cup
    { Put(Put(Put(BaseNotification, "headers", Headers), "data", Bytes(n)), "ttl", 100) :
          n \in {0, SmallMaxData, SmallMaxData + 1} } \cup
    { Put(Put(BaseNotification, "headers", Headers), "data", Bytes(n)) :
          n \in {4096, 4097} } \cup
    { Put(Put(BaseNotification, "headers", h), "data", Bytes(1)) :
          h \in { Put(Headers, "crypto_key", "dh=k"),
                  Put(Headers, "encryption_key", "dh=e"),
                  Put(Put(Headers, "crypto_key", "dh=k"), "encryption_key", "dh=e") } }

Reasons == DOMAIN reasonTable \cup {"", "Bogus"}

\* results[0] of a gateway reply
ResultDicts ==
    { EmptyDict } \cup
    { [error |-> e] : e \in Reasons } \cup
    { [registration_id |-> r] : r \in {"", "tok2"} } \cup
    { [error |-> "NotRegistered", registration_id |-> "tok2"] }

ResultLists == { <<>> } \cup { <<r>> : r \in ResultDicts }

FlagDicts(k) == { EmptyDict } \cup { (k :> v) : v \in {0, 1} }

\* the dicts notify_single_device may return
Replies ==
    { c @@ f @@ r :
        c \in FlagDicts("canonical_ids"),
        f \in FlagDicts("failure"),
        r \in { EmptyDict } \cup { ("results" :> l) : l \in ResultLists } }

\* the exceptions notify_single_device may raise, by the except clause they reach
GatewayErrors == {"AuthenticationError", "ConnectionError", "Exception"}

GatewayBehaviours ==
    { [returned |-> r] : r \in Replies } \cup { [raised |-> e] : e \in GatewayErrors }

----------------------------------------------------------------------------
(* RouterResponse, RouterException and FCMRouter._error *)

\* repr() of a str
Repr(s) == "'" \o s \o "'"

\* the constructors of autopush.router.interface.RouterResponse and
\* autopush.exceptions.RouterException, as the records of the arguments passed
RouterResponse(kwargs) == [kind |-> "RouterResponse"] @@ kwargs

RouterException(message, kwargs) ==
    [kind |-> "RouterException", message |-> message] @@ kwargs

_error(err, status, kwargs) ==
    [exc |-> RouterException(err, [status_code |-> status,
                                   response_body |-> err] @@ kwargs),
     log |-> << [level |-> "debug", msg |-> err] >>]

----------------------------------------------------------------------------
(* FCMRouter.register: the exception raised or None returned, the            *)
(* router_data dict after the call, and the log records emitted.             *)

\* register with the sender check reduced to "an appId was given"
register_any_sender(rd, app_id) ==
    IF "token" \notin DOMAIN rd THEN
        LET e == _error("connect info missing FCM Instance 'token'", 401,
                        [uri |-> None, senderid |-> Repr(app_id)])
        IN  [outcome |-> e.exc, router_data |-> rd, log |-> e.log]
    ELSE IF app_id = "" THEN
        LET e == _error("Invalid SenderID", 410, [errno |-> 105])
        IN  [outcome |-> e.exc, router_data |-> rd, log |-> e.log]
    ELSE
        [outcome |-> [kind |-> "None"],
         router_data |-> Put(rd, "creds", [senderID |-> senderID, auth |-> auth]),
         log |-> <<>>]

\* register writing creds before it checks the sender id
register_creds_first(rd, app_id) ==
    IF "token" \notin DOMAIN rd THEN
        LET e == _error("connect info missing FCM Instance 'token'", 401,
                        [uri |-> None, senderid |-> Repr(app_id)])
        IN  [outcome |-> e.exc, router_data |-> rd, log |-> e.log]
    ELSE IF ~(app_id = senderID) THEN
        LET e == _error("Invalid SenderID", 410, [errno |-> 105])
        IN  [outcome |-> e.exc,
             router_data |-> Put(rd, "creds", [senderID |-> senderID, auth |-> auth]),
             log |-> e.log]
    ELSE
        [outcome |-> [kind |-> "None"],
         router_data |-> Put(rd, "creds", [senderID |-> senderID, auth |-> auth]),
         log |-> <<>>]

register(rd, app_id) ==
    IF "token" \notin DOMAIN rd THEN
        LET e == _error("connect info missing FCM Instance 'token'", 401,
                        [uri |-> None, senderid |-> Repr(app_id)])
        IN  [outcome |-> e.exc, router_data |-> rd, log |-> e.log]
    ELSE IF ~(app_id = senderID) THEN
        LET e == _error("Invalid SenderID", 410, [errno |-> 105])
        IN  [outcome |-> e.exc, router_data |-> rd, log |-> e.log]
    ELSE
        [outcome |-> [kind |-> "None"],
         router_data |-> Put(rd, "creds", [senderID |-> senderID, auth |-> auth]),
         log |-> <<>>]

----------------------------------------------------------------------------
(* FCMRouter._process_reply: the RouterResponse returned or the exception   *)
(* raised, the counters incremented on the way (in order), and the log      *)
(* records emitted.                                                          *)

\* an exception of the Python runtime that no except clause of the router handles
Unhandled(kind, line) == [kind |-> kind, line |-> line]

_process_reply(rep, n, rd, ttl) ==
    LET results == Get(rep, "results", << EmptyDict >>) IN
    IF Len(results) = 0 THEN
        \* line 225: [][0]
        [outcome |-> Unhandled("IndexError", 225), incs |-> <<>>, log |-> <<>>]
    ELSE
    LET result == results[1] IN
    IF TruthyInt(rep, "canonical_ids") THEN
        IF "token" \notin DOMAIN rd THEN
            [outcome |-> Unhandled("KeyError", 227), incs |-> <<>>, log |-> <<>>]
        ELSE
        LET old_id == rd["token"]
            new_id == Get(result, "registration_id", None)
        IN  [outcome |-> RouterResponse(
                            [status_code |-> 503,
                             response_body |-> "Please try request again.",
                             router_data |-> [token |-> new_id]]),
             incs |-> << "updates.client.bridge.fcm.failed.rereg" >>,
             log |-> << [level |-> "info",
                         msg |-> "FCM id changed : {old} => {new}",
                         old |-> old_id, new |-> new_id] >>]
    ELSE IF TruthyInt(rep, "failure") THEN
        LET failed == << "updates.client.bridge.fcm.failed" >>
            reason == Get(result, "error", "Unreported")
        IN
        IF reason \notin DOMAIN reasonTable THEN
            \* line 241: reasonTable.get(reason) is None, None.get
            [outcome |-> Unhandled("AttributeError", 241), incs |-> failed,
             log |-> <<>>]
        ELSE
        LET err == reasonTable[reason] IN
        IF Get(err, "crit", FALSE) THEN
            IF "data" \notin DOMAIN n THEN
                \* line 244: len(None)
                [outcome |-> Unhandled("TypeError", 244), incs |-> failed,
                 log |-> <<>>]
            ELSE IF "token" \notin DOMAIN rd THEN
                [outcome |-> Unhandled("KeyError", 245), incs |-> failed,
                 log |-> <<>>]
            ELSE
                [outcome |-> RouterException("FCM failure to deliver",
                                [status_code |-> err["err"],
                                 response_body |-> "Please try request later.",
                                 log_exception |-> FALSE]),
                 incs |-> failed,
                 log |-> << [level |-> "critical", msg |-> err["msg"],
                             nlen |-> Len(n["data"]), regid |-> rd["token"],
                             senderid |-> senderID] >>]
        ELSE
            IF "creds" \notin DOMAIN rd THEN
                \* line 254: router_data["creds"]
                [outcome |-> Unhandled("KeyError", 254), incs |-> failed,
                 log |-> <<>>]
            ELSE
                [outcome |-> RouterResponse(
                                [status_code |-> err["err"],
                                 errno |-> err["errno"],
                                 response_body |-> err["msg"],
                                 router_data |-> EmptyDict]),
                 incs |-> failed,
                 log |-> << [level |-> "info", msg |-> "{msg} : {info}",
                             reason |-> reason] >>]
    ELSE
        LET location == endpoint_url \o "/m/" \o n["version"]
        IN  [outcome |-> RouterResponse(
                            [status_code |-> 201,
                             response_body |-> "",
                             headers |-> [TTL |-> ttl, Location |-> location],
                             logged_status |-> 200]),
             incs |-> << "updates.client.bridge.fcm.succeeded" >>,
             log |-> <<>>]

----------------------------------------------------------------------------
(* FCMRouter._route *)

\* _route with the payload size checked before the token
_route_data_size_first(n, rd) ==
    LET chid == [chid |-> n["channel_id"]["hex"]]
        mdata == Get(router_conf, "max_data", 4096)
    IN
    IF TruthyBytes(n, "data") /\ Len(n["data"]) > mdata THEN
        LET e == _error("This message is intended for a constrained device "
                        \o "and is limited to 3070 bytes. Converted buffer "
                        \o "too long by " \o ToString(Len(n["data"]) - mdata)
                        \o " bytes",
                        413, [errno |-> 104, log_exception |-> FALSE])
        IN  [raised |-> TRUE, outcome |-> e.exc, log |-> e.log]
    ELSE IF ~TruthyStr(rd, "token") THEN
        LET e == _error("No registration token found. Rejecting message.", 410,
                        [errno |-> 106, log_exception |-> FALSE])
        IN  [raised |-> TRUE, outcome |-> e.exc, log |-> e.log]
    ELSE IF TruthyBytes(n, "data") THEN
        LET hdr == n["headers"]
            body == chid @@ [body |-> n["data"], con |-> hdr["encoding"],
                             enc |-> hdr["encryption"]]
        IN  [raised |-> FALSE,
             data |-> IF "crypto_key" \in DOMAIN hdr
                          THEN Put(body, "cryptokey", hdr["crypto_key"])
                      ELSE IF "encryption_key" \in DOMAIN hdr
                          THEN Put(body, "enckey", hdr["encryption_key"])
                      ELSE body]
    ELSE
        [raised |-> FALSE, data |-> chid]

\* the size test with the boundary length refused
data_too_long_at_limit(n) ==
    Len(n["data"]) >= Get(router_conf, "max_data", 4096)

\* lines 167-168: len(notification.data) > mdata
data_too_long(n) ==
    Len(n["data"]) > Get(router_conf, "max_data", 4096)

\* lines 158-183: the exception raised before the gateway is called, or the
\* data message built for it
_route_data(n, rd) ==
    LET chid == [chid |-> n["channel_id"]["hex"]] IN
    IF ~TruthyStr(rd, "token") THEN
        LET e == _error("No registration token found. Rejecting message.", 410,
                        [errno |-> 106, log_exception |-> FALSE])
        IN  [raised |-> TRUE, outcome |-> e.exc, log |-> e.log]
    ELSE IF TruthyBytes(n, "data") THEN
        LET mdata == Get(router_conf, "max_data", 4096) IN
        IF data_too_long(n) THEN
            LET e == _error("This message is intended for a constrained device "
                            \o "and is limited to 3070 bytes. Converted buffer "
                            \o "too long by " \o ToString(Len(n["data"]) - mdata)
                            \o " bytes",
                            413, [errno |-> 104, log_exception |-> FALSE])
            IN  [raised |-> TRUE, outcome |-> e.exc, log |-> e.log]
        ELSE
            LET hdr == n["headers"]
                body == chid @@ [body |-> n["data"], con |-> hdr["encoding"],
                                 enc |-> hdr["encryption"]]
            IN  [raised |-> FALSE,
                 data |-> IF "crypto_key" \in DOMAIN hdr
                              THEN Put(body, "cryptokey", hdr["crypto_key"])
                          ELSE IF "encryption_key" \in DOMAIN hdr
                              THEN Put(body, "enckey", hdr["encryption_key"])
                          ELSE body]
    ELSE
        [raised |-> FALSE, data |-> chid]

\* router_ttl without the MAX_TTL cap
router_ttl_uncapped(n) ==
    Max(min_ttl, IF TruthyInt(n, "ttl") THEN n["ttl"] ELSE 0)

\* lines 187-188
router_ttl(n) ==
    Min(MAX_TTL, Max(min_ttl, IF TruthyInt(n, "ttl") THEN n["ttl"] ELSE 0))

\* lines 190-196: the keyword arguments of fcm.notify_single_device
notify_single_device(n, rd, data) ==
    [collapse_key |-> collapseKey,
     data_message |-> data,
     dry_run |-> (dryRun \/ "dryrun" \in DOMAIN rd),
     registration_id |-> rd["token"],
     time_to_live |-> router_ttl(n)]

\* _route with every gateway exception caught by the generic clause
_route_except_generic_only(e) ==
    [outcome |-> RouterException("Server error", [status_code |-> 500]),
     incs |-> <<>>,
     log |-> << [level |-> "error", msg |-> "Unhandled FCM Error: %s"] >>]

\* lines 197-208: the except clauses of _route, for the exception e the
\* gateway client raised
_route_except(e) ==
    IF e = "AuthenticationError" THEN
        [outcome |-> RouterException("Server error", [status_code |-> 500]),
         incs |-> <<>>,
         log |-> << [level |-> "error", msg |-> "Authentication Error: %s"] >>]
    ELSE IF e = "ConnectionError" THEN
        [outcome |-> RouterException("Server error",
                        [status_code |-> 502, log_exception |-> FALSE]),
         incs |-> << "updates.client.bridge.fcm.connection_err" >>,
         log |-> << [level |-> "warn",
                     msg |-> "Could not connect to FCM server: %s"] >>]
    ELSE
        [outcome |-> RouterException("Server error", [status_code |-> 500]),
         incs |-> <<>>,
         log |-> << [level |-> "error", msg |-> "Unhandled FCM Error: %s"] >>]

\* _process_reply storing the rotated token in router_data itself
route_data_after_stores_token(rep, n, rd) ==
    IF TruthyInt(rep, "canonical_ids")
         /\ Get(rep, "results", << EmptyDict >>) # <<>>
    THEN Put(rd, "token",
             Get(Get(rep, "results", << EmptyDict >>)[1], "registration_id", None))
    ELSE rd

\* lines 154-272: the router_data dict after _route and _process_reply ran on
\* it; no statement of either assigns to it
route_data_after(rep, n, rd) == rd

\* lines 122-124: FCMRouter.amend_endpoint_response, the response dict after it
amend_endpoint_response(resp, rd) ==
    Put(resp, "senderid", Get(Get(rd, "creds", EmptyDict), "senderID", None))

\* the metrics sink's increment(name, tags): one add that no other thread's
\* increment interleaves with
increment(m, name) == [m EXCEPT ![name] = @ + 1]

\* self.metrics.increment called for each name of incs, in order
RECURSIVE Increment(_, _)
Increment(m, incs) ==
    IF incs = <<>> THEN m
    ELSE Increment(increment(m, Head(incs)), Tail(incs))

----------------------------------------------------------------------------
(* The state machine *)

NoCall == [called |-> FALSE]

NoResponse == [called |-> FALSE]

\* the response dicts the endpoint hands to amend_endpoint_response
EndpointResponses == { EmptyDict, [channelID |-> "c1"], [senderid |-> "old"] }

Init ==
    /\ router_conf \in RouterConfs
    /\ router_data \in ConnectInfos
    /\ metrics = [c \in Counters |-> 0]
    /\ registered = NoCall
    /\ response = NoResponse
    /\ pc = [w \in Workers |-> "idle"]
    /\ notification = [w \in Workers |-> EmptyDict]
    /\ route_data = [w \in Workers |-> EmptyDict]
    /\ fcm_calls = [w \in Workers |-> <<>>]
    /\ reply = [w \in Workers |-> EmptyDict]
    /\ outcome = [w \in Workers |-> EmptyDict]
    /\ log = [w \in Workers |-> <<>>]

\* The endpoint calls register(uaid, router_data, app_id) on the caller's
\* context. register and a dispatch share no state (register touches only its
\* own argument), so the calls are taken between dispatches.
CallRegister(app_id) ==
    /\ \A w \in Workers : pc[w] = "idle"
    /\ LET r == register(router_data, app_id)
       IN  /\ registered' = [called |-> TRUE, app_id |-> app_id,
                             router_data |-> router_data,
                             outcome |-> r.outcome, log |-> r.log]
           /\ router_data' = r.router_data
    /\ UNCHANGED <<router_conf, metrics, response, pc, notification,
                   route_data, fcm_calls, reply, outcome, log>>

\* The endpoint calls amend_endpoint_response(response, router_data) on the
\* caller's context, between dispatches.
AmendEndpointResponse(resp) ==
    /\ \A w \in Workers : pc[w] = "idle"
    /\ response' = [called |-> TRUE, given |-> resp,
                    amended |-> amend_endpoint_response(resp, router_data)]
    /\ UNCHANGED <<router_conf, router_data, metrics, registered, pc,
                   notification, route_data, fcm_calls, reply, outcome, log>>

\* route_notification running _route itself instead of deferring it to a thread
route_notification_inline(w, n) ==
    /\ pc[w] = "idle"
    /\ metrics["updates.client.bridge.fcm.attempted"]
         + metrics["updates.client.bridge.fcm.connection_err"] < MaxAttempts
    /\ LET d == _route_data(n, router_data)
       IN  IF d.raised
           THEN /\ pc' = [pc EXCEPT ![w] = "done"]
                /\ outcome' = [outcome EXCEPT ![w] = d.outcome]
                /\ log' = [log EXCEPT ![w] = d.log]
                /\ UNCHANGED fcm_calls
           ELSE /\ pc' = [pc EXCEPT ![w] = "calling"]
                /\ fcm_calls' = [fcm_calls EXCEPT
                       ![w] = Append(@, notify_single_device(n, router_data, d.data))]
                /\ UNCHANGED <<outcome, log>>
    /\ notification' = [notification EXCEPT ![w] = n]
    /\ route_data' = [route_data EXCEPT ![w] = router_data]
    /\ registered' = NoCall
    /\ response' = NoResponse
    /\ UNCHANGED <<router_conf, router_data, metrics, reply>>

\* FCMRouter.route_notification, lines 148-152, on the caller's context:
\* deferToThread(self._route, notification, uaid_data["router_data"]).
route_notification(w, n) ==
    /\ pc[w] = "idle"
    /\ metrics["updates.client.bridge.fcm.attempted"]
         + metrics["updates.client.bridge.fcm.connection_err"] < MaxAttempts
    /\ pc' = [pc EXCEPT ![w] = "queued"]
    /\ notification' = [notification EXCEPT ![w] = n]
    /\ route_data' = [route_data EXCEPT ![w] = router_data]
    /\ registered' = NoCall
    /\ response' = NoResponse
    /\ UNCHANGED <<router_conf, router_data, metrics, fcm_calls, reply,
                   outcome, log>>

\* The worker thread runs _route up to the blocking call of the gateway
\* client (lines 158-196), or to the exception raised before it.
RouteToGateway(w) ==
    /\ pc[w] = "queued"
    /\ LET n == notification[w]
           rd == route_data[w]
           d == _route_data(n, rd)
       IN  IF d.raised
           THEN /\ pc' = [pc EXCEPT ![w] = "done"]
                /\ outcome' = [outcome EXCEPT ![w] = d.outcome]
                /\ log' = [log EXCEPT ![w] = d.log]
                /\ UNCHANGED fcm_calls
           ELSE /\ pc' = [pc EXCEPT ![w] = "calling"]
                /\ fcm_calls' = [fcm_calls EXCEPT
                       ![w] = Append(@, notify_single_device(n, rd, d.data))]
                /\ UNCHANGED <<outcome, log>>
    /\ UNCHANGED <<router_conf, router_data, metrics, registered, response,
                   notification, route_data, reply>>

\* The gateway client raises, and the worker thread runs the except clause
\* (lines 197-208); or it returns a reply, and the worker thread increments
\* attempted (lines 209-210).
GatewayReturns(w, g) ==
    /\ pc[w] = "calling"
    /\ reply' = [reply EXCEPT ![w] = g]
    /\ IF "raised" \in DOMAIN g
       THEN LET r == _route_except(g.raised)
            IN  /\ outcome' = [outcome EXCEPT ![w] = r.outcome]
                /\ metrics' = Increment(metrics, r.incs)
                /\ log' = [log EXCEPT ![w] = r.log]
                /\ pc' = [pc EXCEPT ![w] = "done"]
       ELSE /\ metrics' = Increment(metrics,
                              << "updates.client.bridge.fcm.attempted" >>)
            /\ pc' = [pc EXCEPT ![w] = "replied"]
            /\ UNCHANGED <<outcome, log>>
    /\ UNCHANGED <<router_conf, router_data, registered, response,
                   notification, route_data, fcm_calls>>

\* _route keeping the reply on the router, where the threads share it, instead
\* of in a local: the reply processed is the one any thread last stored
ProcessReply_shared_reply(w) ==
    /\ pc[w] = "replied"
    /\ \E v \in Workers :
        /\ "returned" \in DOMAIN reply[v]
        /\ LET n == notification[w]
               rd == route_data[w]
               r == _process_reply(reply[v].returned, n, rd, router_ttl(n))
           IN  /\ outcome' = [outcome EXCEPT ![w] = r.outcome]
               /\ metrics' = Increment(metrics, r.incs)
               /\ log' = [log EXCEPT ![w] = r.log]
    /\ pc' = [pc EXCEPT ![w] = "done"]
    /\ UNCHANGED <<router_conf, router_data, registered, response,
                   notification, route_data, fcm_calls, reply>>

\* The worker thread runs _process_reply on the reply (lines 211-212, 220-272).
ProcessReply(w) ==
    /\ pc[w] = "replied"
    /\ LET n == notification[w]
           rd == route_data[w]
           r == _process_reply(reply[w].returned, n, rd, router_ttl(n))
       IN  /\ outcome' = [outcome EXCEPT ![w] = r.outcome]
           /\ metrics' = Increment(metrics, r.incs)
           /\ log' = [log EXCEPT ![w] = r.log]
           /\ route_data' = [route_data EXCEPT
                  ![w] = route_data_after(reply[w].returned, n, rd)]
    /\ pc' = [pc EXCEPT ![w] = "done"]
    /\ UNCHANGED <<router_conf, router_data, registered, response,
                   notification, fcm_calls, reply>>

\* The deferred of deferToThread fires with the outcome; the worker is free.
DeferredFires(w) ==
    /\ pc[w] = "done"
    /\ pc' = [pc EXCEPT ![w] = "idle"]
    /\ notification' = [notification EXCEPT ![w] = EmptyDict]
    /\ route_data' = [route_data EXCEPT ![w] = EmptyDict]
    /\ fcm_calls' = [fcm_calls EXCEPT ![w] = <<>>]
    /\ reply' = [reply EXCEPT ![w] = EmptyDict]
    /\ outcome' = [outcome EXCEPT ![w] = EmptyDict]
    /\ log' = [log EXCEPT ![w] = <<>>]
    /\ UNCHANGED <<router_conf, router_data, metrics, registered, response>>

\* Dispatches taken one at a time, over every input.
Next ==
    \/ \E a \in AppIds : CallRegister(a)
    \/ \E resp \in EndpointResponses : AmendEndpointResponse(resp)
    \/ \E w \in Serial, n \in Notifications : route_notification(w, n)
    \/ \E w \in Serial : RouteToGateway(w)
    \/ \E w \in Serial, g \in GatewayBehaviours : GatewayReturns(w, g)
    \/ \E w \in Serial : ProcessReply(w)
    \/ \E w \in Serial : DeferredFires(w)

Spec == Init /\ [][Next]_vars

\* The inputs of the dispatches that run side by side on the pool.
PoolConnectInfos == { EmptyDict, [token |-> "tok"] }

PoolNotifications ==
    { BaseNotification,
      Put(Put(BaseNotification, "headers", Headers), "data", Bytes(1)) }

PoolReplies ==
    { EmptyDict,
      [canonical_ids |-> 1, results |-> << [registration_id |-> "tok2"] >>],
      [failure |-> 1, results |-> << [error |-> "NotRegistered"] >>],
      [failure |-> 1, results |-> << [error |-> "Unavailable"] >>],
      [results |-> <<>>] }

PoolBehaviours ==
    { [returned |-> r] : r \in PoolReplies } \cup
    { [raised |-> e] : e \in {"AuthenticationError", "ConnectionError"} }

InitPool ==
    /\ router_conf = BaseConf
    /\ router_data \in PoolConnectInfos
    /\ metrics = [c \in Counters |-> 0]
    /\ registered = NoCall
    /\ response = NoResponse
    /\ pc = [w \in Workers |-> "idle"]
    /\ notification = [w \in Workers |-> EmptyDict]
    /\ route_data = [w \in Workers |-> EmptyDict]
    /\ fcm_calls = [w \in Workers |-> <<>>]
    /\ reply = [w \in Workers |-> EmptyDict]
    /\ outcome = [w \in Workers |-> EmptyDict]
    /\ log = [w \in Workers |-> <<>>]

\* Dispatches on every thread of the pool, in any interleaving.
NextPool ==
    \/ CallRegister("sid")
    \/ \E resp \in EndpointResponses : AmendEndpointResponse(resp)
    \/ \E w \in Workers, n \in PoolNotifications : route_notification(w, n)
    \/ \E w \in Workers : RouteToGateway(w)
    \/ \E w \in Workers, g \in PoolBehaviours : GatewayReturns(w, g)
    \/ \E w \in Workers : ProcessReply(w)
    \/ \E w \in Workers : DeferredFires(w)

SpecPool == InitPool /\ [][NextPool]_vars

\* The pool runs every thread that has work, the gateway client returns or
\* raises, and the reactor fires every deferred that has a result.
Fairness ==
    \A w \in Workers :
        /\ WF_vars(RouteToGateway(w))
        /\ WF_vars(\E g \in PoolBehaviours : GatewayReturns(w, g))
        /\ WF_vars(ProcessReply(w))
        /\ WF_vars(DeferredFires(w))

SpecLive == InitPool /\ [][NextPool]_vars /\ Fairness

----------------------------------------------------------------------------
(* Vocabulary of the properties *)

IsRouterResponse(o) == "kind" \in DOMAIN o /\ o["kind"] = "RouterResponse"

IsRouterFailure(o) == "kind" \in DOMAIN o /\ o["kind"] = "RouterException"

\* the dispatch of worker w has ended after the gateway client returned a reply
Replied(w) == pc[w] = "done" /\ "returned" \in DOMAIN reply[w]

\* the step in which worker w runs _process_reply on the reply
RepliesTo(w) == pc[w] = "replied" /\ pc'[w] = "done"

\* results[0] of a reply if present, else the empty record
FirstResult(rep) ==
    IF "results" \in DOMAIN rep /\ Len(rep["results"]) > 0
        THEN rep["results"][1]
        ELSE EmptyDict

\* the vendor reason of a reply: result.error, "Unreported" when there is none
Reason(rep) == Get(FirstResult(rep), "error", "Unreported")

FailureOnly(rep) == TruthyInt(rep, "failure") /\ ~TruthyInt(rep, "canonical_ids")

NonCriticalReasons ==
    { "MissingRegistration", "InvalidRegistration", "NotRegistered",
      "MessageTooBig", "InvalidTtl", "Unavailable", "InternalServerError",
      "DeviceMessageRateExceeded" }

CriticalReasons ==
    { "InvalidPackageName", "MismatchSenderid", "InvalidDataKey",
      "TopicsMessageRateExceeded", "Unreported" }

Delta(c) == metrics'[c] - metrics[c]

----------------------------------------------------------------------------
\* C1: every dispatch ends in a returned RouterResponse or a raised
\* RouterException, never in another outcome (an unclassified error).
C1_ExactlyOneOutcome ==
    \A w \in Workers :
        pc[w] = "done" =>
            IsRouterResponse(outcome[w]) \/ IsRouterFailure(outcome[w])

\* C2: a failure reply whose reason is not a key of reasonTable (unknown,
\* empty, or no error field) ends in the Unreported outcome: a RouterFailure
\* with status 500.
C2_UnknownReasonIsUnreported ==
    \A w \in Workers :
        ( Replied(w) /\ FailureOnly(reply[w].returned)
            /\ Reason(reply[w].returned) \notin DOMAIN reasonTable \ {"Unreported"} )
        => /\ IsRouterFailure(outcome[w])
           /\ outcome[w]["status_code"] = 500

\* C3: a reply with canonical_ids truthy yields the 503 response carrying
\* results[0].registration_id as the new token, increments failed.rereg once
\* and neither failed nor succeeded.
C3_CanonicalIdsRereg ==
    [][\A w \in Workers :
        RepliesTo(w) /\ TruthyInt(reply'[w].returned, "canonical_ids")
        => /\ IsRouterResponse(outcome'[w])
           /\ outcome'[w]["status_code"] = 503
           /\ outcome'[w]["response_body"] = "Please try request again."
           /\ outcome'[w]["router_data"] =
                [token |-> Get(FirstResult(reply'[w].returned),
                               "registration_id", None)]
           /\ Delta("updates.client.bridge.fcm.failed.rereg") = 1
           /\ Delta("updates.client.bridge.fcm.failed") = 0
           /\ Delta("updates.client.bridge.fcm.succeeded") = 0]_vars

\* C4: a reply with neither failure nor canonical_ids truthy yields the 201
\* response with empty body, loggedStatus 200, Location
\* <endpoint_url>/m/<version> and the TTL header equal to the time_to_live
\* passed to the gateway client; succeeded is incremented once.
C4_SuccessResponse ==
    [][\A w \in Workers :
        RepliesTo(w)
          /\ ~TruthyInt(reply'[w].returned, "failure")
          /\ ~TruthyInt(reply'[w].returned, "canonical_ids")
        => /\ IsRouterResponse(outcome'[w])
           /\ outcome'[w]["status_code"] = 201
           /\ outcome'[w]["response_body"] = ""
           /\ outcome'[w]["logged_status"] = 200
           /\ outcome'[w]["headers"]["Location"] =
                endpoint_url \o "/m/" \o notification[w]["version"]
           /\ outcome'[w]["headers"]["TTL"] = fcm_calls[w][1]["time_to_live"]
           /\ Delta("updates.client.bridge.fcm.succeeded") = 1]_vars

\* C5: a failure reply with a non-critical reason of reasonTable yields a
\* RouterResponse with the entry's err, errno and msg template and an empty
\* routerDataPatch, for every routerData that reached reply processing.
C5_NonCriticalReason ==
    \A w \in Workers :
        ( Replied(w) /\ FailureOnly(reply[w].returned)
            /\ Reason(reply[w].returned) \in NonCriticalReasons )
        => LET entry == reasonTable[Reason(reply[w].returned)]
           IN  /\ IsRouterResponse(outcome[w])
               /\ outcome[w]["status_code"] = entry["err"]
               /\ outcome[w]["errno"] = entry["errno"]
               /\ outcome[w]["response_body"] = entry["msg"]
               /\ outcome[w]["router_data"] = EmptyDict

\* C6: a failure reply with a critical reason of reasonTable ends in a
\* RouterFailure with the entry's err, not logged as an exception, with body
\* "Please try request later.", for every notification (payload or not).
C6_CriticalReason ==
    \A w \in Workers :
        ( Replied(w) /\ FailureOnly(reply[w].returned)
            /\ Reason(reply[w].returned) \in CriticalReasons )
        => LET entry == reasonTable[Reason(reply[w].returned)]
           IN  /\ IsRouterFailure(outcome[w])
               /\ outcome[w]["status_code"] = entry["err"]
               /\ outcome[w]["log_exception"] = FALSE
               /\ outcome[w]["response_body"] = "Please try request later."

\* C7: the time_to_live passed to the gateway client is
\* min(2419200, max(minTtl, t or 0)) for the requested ttl t: never above
\* 2419200, never below minTtl when minTtl <= 2419200.
C7_TtlClamp ==
    \A w \in Workers :
        Len(fcm_calls[w]) > 0 =>
            LET sent == fcm_calls[w][1]["time_to_live"]
                t == Get(notification[w], "ttl", 0)
                m == Get(router_conf, "ttl", 60)
            IN  /\ sent <= 2419200
                /\ (m <= 2419200 => sent >= m)
                /\ sent = ( IF m > 2419200 \/ t > 2419200 THEN 2419200
                            ELSE IF t > m THEN t ELSE m )
                /\ (m = 60 /\ "ttl" \notin DOMAIN notification[w] => sent = 60)
                /\ (m = 60 /\ t = 30 => sent = 60)
                /\ (m = 60 /\ t = 99999999 => sent = 2419200)

\* C7 witness: a send with ttl 99999999 and minTtl 60 went out with 2419200.
C7_Witness ==
    \E w \in Workers :
        /\ Len(fcm_calls[w]) > 0
        /\ Get(router_conf, "ttl", 60) = 60
        /\ Get(notification[w], "ttl", 0) = 99999999
        /\ fcm_calls[w][1]["time_to_live"] = 2419200

\* C8: a dispatch whose routerData has no token, or an empty one, ends in a
\* RouterFailure 410 / errno 106 not logged as an exception, whatever the
\* payload; the gateway client is not invoked and no counter moves.
C8_MissingToken ==
    [][\A w \in Workers :
        ( pc[w] = "queued" /\ pc'[w] # "queued"
            /\ ~TruthyStr(route_data[w], "token") )
        => /\ pc'[w] = "done"
           /\ IsRouterFailure(outcome'[w])
           /\ outcome'[w]["status_code"] = 410
           /\ outcome'[w]["errno"] = 106
           /\ outcome'[w]["log_exception"] = FALSE
           /\ fcm_calls'[w] = <<>>
           /\ reply'[w] = EmptyDict
           /\ metrics' = metrics]_vars

\* C8 witness: a dispatch without token and with a payload larger than
\* max_data ended in the 410 failure without a gateway call.
C8_Witness ==
    \E w \in Workers :
        /\ pc[w] = "done"
        /\ "token" \notin DOMAIN route_data[w]
        /\ "data" \in DOMAIN notification[w]
        /\ Len(notification[w]["data"]) > Get(router_conf, "max_data", 4096)
        /\ IsRouterFailure(outcome[w])
        /\ outcome[w]["status_code"] = 410
        /\ fcm_calls[w] = <<>>

\* C9: register fails with a RouterFailure 401 for every routerData whose
\* token is absent or empty, whatever appId is, and never writes creds.
C9_RegisterNeedsToken ==
    ( registered["called"] /\ ~TruthyStr(registered["router_data"], "token") )
    => /\ IsRouterFailure(registered["outcome"])
       /\ registered["outcome"]["status_code"] = 401
       /\ router_data = registered["router_data"]

\* C10: register with a token and an appId that differs from the configured
\* senderID fails with a RouterFailure 410 / errno 105, whatever else
\* routerData holds; register succeeds only when appId equals senderID.
C10_SenderMismatch ==
    registered["called"] =>
        /\ ( "token" \in DOMAIN registered["router_data"]
               /\ registered["app_id"] # router_conf["senderID"] )
           => /\ IsRouterFailure(registered["outcome"])
              /\ registered["outcome"]["status_code"] = 410
              /\ registered["outcome"]["errno"] = 105
              /\ router_data = registered["router_data"]
        /\ registered["outcome"]["kind"] = "None"
           => registered["app_id"] = router_conf["senderID"]

\* C10 witness: a register call with a token, other content and an appId
\* that differs from senderID only by case was refused with 410.
C10_Witness ==
    /\ registered["called"]
    /\ "token" \in DOMAIN registered["router_data"]
    /\ "dryrun" \in DOMAIN registered["router_data"]
    /\ registered["app_id"] = "SID"
    /\ router_conf["senderID"] = "sid"
    /\ IsRouterFailure(registered["outcome"])
    /\ registered["outcome"]["status_code"] = 410

\* C11: with a non-empty token and a payload, the gateway client is called
\* iff len(data) <= max_data (default 4096, the boundary accepted); a longer
\* payload ends in a RouterFailure 413 / errno 104, not logged as an
\* exception, whose message carries len(data) - max_data, without a gateway
\* call.
C11_PayloadLimit ==
    \A w \in Workers :
        ( pc[w] \in {"calling", "done"}
            /\ TruthyStr(route_data[w], "token")
            /\ TruthyBytes(notification[w], "data") )
        => LET len == Len(notification[w]["data"])
               max_data == Get(router_conf, "max_data", 4096)
           IN  /\ (len <= max_data) <=> (Len(fcm_calls[w]) = 1)
               /\ len > max_data =>
                    /\ pc[w] = "done"
                    /\ fcm_calls[w] = <<>>
                    /\ reply[w] = EmptyDict
                    /\ IsRouterFailure(outcome[w])
                    /\ outcome[w]["status_code"] = 413
                    /\ outcome[w]["errno"] = 104
                    /\ outcome[w]["log_exception"] = FALSE
                    /\ outcome[w]["message"] =
                         "This message is intended for a constrained device and "
                         \o "is limited to 3070 bytes. Converted buffer too long by "
                         \o ToString(len - max_data) \o " bytes"
               /\ (len = 4097 /\ "max_data" \notin DOMAIN router_conf) =>
                    outcome[w]["message"] =
                         "This message is intended for a constrained device and "
                         \o "is limited to 3070 bytes. Converted buffer too long by "
                         \o "1 bytes"

\* C11 witness: under the default max_data a payload of 4097 bytes was
\* refused with 413 and no gateway call.
C11_Witness ==
    \E w \in Workers :
        /\ pc[w] = "done"
        /\ "max_data" \notin DOMAIN router_conf
        /\ TruthyStr(route_data[w], "token")
        /\ "data" \in DOMAIN notification[w]
        /\ Len(notification[w]["data"]) = 4097
        /\ IsRouterFailure(outcome[w])
        /\ outcome[w]["status_code"] = 413
        /\ fcm_calls[w] = <<>>

\* C11 boundary: under the default max_data a payload of exactly 4096 bytes
\* was passed to the gateway client.
C11_WitnessBoundary ==
    \E w \in Workers :
        /\ pc[w] = "calling"
        /\ "max_data" \notin DOMAIN router_conf
        /\ "data" \in DOMAIN notification[w]
        /\ Len(notification[w]["data"]) = 4096
        /\ Len(fcm_calls[w]) = 1

\* C12: when the gateway client call raises, an authentication failure ends
\* in a RouterFailure 500, a connectivity failure in a RouterFailure 502 not
\* logged as an exception with connection_err incremented once, any other
\* exception in a RouterFailure 500; attempted and the reply processor's
\* counters do not move and the gateway client is not called again.
C12_GatewayRaises ==
    [][\A w \in Workers :
        ( pc[w] = "calling" /\ pc'[w] # "calling"
            /\ "raised" \in DOMAIN reply'[w] )
        => /\ pc'[w] = "done"
           /\ IsRouterFailure(outcome'[w])
           /\ reply'[w]["raised"] = "AuthenticationError"
                => outcome'[w]["status_code"] = 500
           /\ reply'[w]["raised"] = "ConnectionError"
                => /\ outcome'[w]["status_code"] = 502
                   /\ outcome'[w]["log_exception"] = FALSE
                   /\ Delta("updates.client.bridge.fcm.connection_err") = 1
           /\ reply'[w]["raised"] \notin {"AuthenticationError", "ConnectionError"}
                => outcome'[w]["status_code"] = 500
           /\ Delta("updates.client.bridge.fcm.attempted") = 0
           /\ Delta("updates.client.bridge.fcm.failed.rereg") = 0
           /\ Delta("updates.client.bridge.fcm.failed") = 0
           /\ Delta("updates.client.bridge.fcm.succeeded") = 0
           /\ Len(fcm_calls'[w]) = 1]_vars

\* C12 witness: a dispatch whose gateway call raised a connectivity failure
\* ended in the 502 failure with connection_err at 1 and attempted at 0.
C12_Witness ==
    \E w \in Workers :
        /\ pc[w] = "done"
        /\ "raised" \in DOMAIN reply[w]
        /\ reply[w]["raised"] = "ConnectionError"
        /\ IsRouterFailure(outcome[w])
        /\ outcome[w]["status_code"] = 502
        /\ metrics["updates.client.bridge.fcm.connection_err"] = 1
        /\ metrics["updates.client.bridge.fcm.attempted"] = 0

\* the gateway calls counted so far leave room for another dispatch
BelowCap ==
    metrics["updates.client.bridge.fcm.attempted"]
      + metrics["updates.client.bridge.fcm.connection_err"] < MaxAttempts

\* C13: route_notification runs no step of the dispatch on the caller's
\* context: the step that accepts a notification only hands the notification
\* and uaid_data["router_data"] to a worker (no validation outcome, no gateway
\* call, no reply, no log line, no counter moves), and while one worker is
\* blocked in the gateway call the caller can start a further route_notification
\* on a free worker.
C13_DispatchOffCaller ==
    /\ [][\A w \in Workers :
            (pc[w] = "idle" /\ pc'[w] # "idle")
            => /\ pc'[w] = "queued"
               /\ route_data'[w] = router_data
               /\ fcm_calls' = fcm_calls
               /\ reply' = reply
               /\ outcome' = outcome
               /\ log' = log
               /\ metrics' = metrics
               /\ router_data' = router_data]_vars
    /\ [](\A w \in Workers, v \in Workers, n \in PoolNotifications :
            (pc[w] = "calling" /\ pc[v] = "idle" /\ BelowCap)
            => ENABLED route_notification(v, n))

\* C13 witness: a second dispatch was accepted and queued while the first is
\* still blocked in its gateway call.
C13_Witness ==
    /\ pc["w1"] = "calling"
    /\ Len(fcm_calls["w1"]) = 1
    /\ pc["w2"] = "queued"
    /\ fcm_calls["w2"] = <<>>
    /\ outcome["w2"] = EmptyDict

\* worker w takes, in this step, the branch that increments counter c
Took(w, c) ==
    \/ /\ c = "updates.client.bridge.fcm.attempted"
       /\ pc[w] = "calling" /\ pc'[w] = "replied"
    \/ /\ c = "updates.client.bridge.fcm.connection_err"
       /\ pc[w] = "calling" /\ pc'[w] = "done"
       /\ reply'[w] = [raised |-> "ConnectionError"]
    \/ /\ pc[w] = "replied" /\ pc'[w] = "done"
       /\ Get(reply[w].returned, "results", << EmptyDict >>) # <<>>
       /\ LET canonical == TruthyInt(reply[w].returned, "canonical_ids")
              failure == TruthyInt(reply[w].returned, "failure")
          IN  \/ c = "updates.client.bridge.fcm.failed.rereg" /\ canonical
              \/ c = "updates.client.bridge.fcm.failed" /\ ~canonical /\ failure
              \/ c = "updates.client.bridge.fcm.succeeded"
                   /\ ~canonical /\ ~failure

\* the outcome the dispatch of worker w has when it runs alone on its own
\* notification, router_data and gateway behaviour
OwnOutcome(w) ==
    IF fcm_calls[w] = <<>>
    THEN _route_data(notification[w], route_data[w]).outcome
    ELSE IF "raised" \in DOMAIN reply[w]
    THEN _route_except(reply[w].raised).outcome
    ELSE _process_reply(reply[w].returned, notification[w], route_data[w],
                        router_ttl(notification[w])).outcome

\* C14: dispatches running side by side on the pool, in any interleaving,
\* share only the metrics counters: a step of one worker changes no other
\* worker's dispatch and nothing of the router or the registry; every counter
\* moves, in each step, by exactly the number of dispatches that take its
\* branch in that step and never decreases; and each finished dispatch has the
\* outcome it has when run alone on its own notification, router_data and
\* gateway reply.
C14_OnlyCountersShared ==
    /\ [][\A w \in Workers :
            (pc[w] \in {"queued", "calling", "replied"} /\ pc'[w] # pc[w])
            => /\ \A v \in Workers \ {w} :
                    /\ pc'[v] = pc[v]
                    /\ notification'[v] = notification[v]
                    /\ route_data'[v] = route_data[v]
                    /\ fcm_calls'[v] = fcm_calls[v]
                    /\ reply'[v] = reply[v]
                    /\ outcome'[v] = outcome[v]
                    /\ log'[v] = log[v]
               /\ router_data' = router_data
               /\ router_conf' = router_conf
               /\ registered' = registered
               /\ response' = response]_vars
    /\ [][\A c \in Counters :
            /\ Delta(c) >= 0
            /\ Delta(c) = Cardinality({w \in Workers : Took(w, c)})]_vars
    /\ [](\A w \in Workers : pc[w] = "done" => outcome[w] = OwnOutcome(w))

\* C14 witness: both workers finished dispatches that overlapped, each counted
\* in attempted, one more in succeeded and the other in failed.rereg.
C14_Witness ==
    /\ pc["w1"] = "done" /\ pc["w2"] = "done"
    /\ metrics["updates.client.bridge.fcm.attempted"] = 2
    /\ metrics["updates.client.bridge.fcm.succeeded"] = 1
    /\ metrics["updates.client.bridge.fcm.failed.rereg"] = 1
    /\ outcome["w1"]["status_code"] = 201
    /\ outcome["w2"]["status_code"] = 503

\* C15: a register call that returns sets router_data["creds"] to exactly
\* {senderID, auth} of the configuration and leaves every other key of
\* router_data as it was; a register call that raises (401 or 410) leaves
\* router_data as it was; either way the configuration, the counters, the
\* gateway calls and every dispatch are untouched.
C15_RegisterFrame ==
    [][(registered'.called /\ registered' # registered)
        => /\ registered'.router_data = router_data
           /\ registered'.outcome.kind = "None"
                => /\ DOMAIN router_data' = DOMAIN router_data \cup {"creds"}
                   /\ router_data'["creds"] =
                        [senderID |-> router_conf["senderID"],
                         auth |-> router_conf["auth"]]
                   /\ \A k \in DOMAIN router_data \ {"creds"} :
                        router_data'[k] = router_data[k]
           /\ registered'.outcome.kind # "None"
                => /\ IsRouterFailure(registered'.outcome)
                   /\ registered'.outcome["status_code"] \in {401, 410}
                   /\ router_data' = router_data
           /\ router_conf' = router_conf
           /\ metrics' = metrics
           /\ fcm_calls' = fcm_calls
           /\ pc' = pc
           /\ notification' = notification
           /\ route_data' = route_data
           /\ reply' = reply
           /\ outcome' = outcome]_vars

\* C15 witness: a successful register on connect info with a token and another
\* key wrote creds and kept both.
C15_Witness ==
    /\ registered.called
    /\ registered.outcome.kind = "None"
    /\ registered.router_data = [token |-> "tok", dryrun |-> TRUE]
    /\ router_data = [token |-> "tok", dryrun |-> TRUE,
                      creds |-> [senderID |-> "sid", auth |-> "key"]]

\* C15 witness: a register refused with 410 left the connect info as it was.
C15_WitnessRefused ==
    /\ registered.called
    /\ IsRouterFailure(registered.outcome)
    /\ registered.outcome["status_code"] = 410
    /\ router_data = registered.router_data
    /\ "creds" \notin DOMAIN router_data

\* the reply has no results field, or an empty results list
NoResults(rep) == "results" \notin DOMAIN rep \/ rep["results"] = <<>>

\* C16: a reply with no results field or an empty results list is processed
\* with the empty record as its result: with failure truthy the dispatch ends
\* in the RouterFailure 500 of "Unreported", with canonical_ids truthy in the
\* 503 response, with neither in the 201 response; no lookup error is raised.
C16_NoResults ==
    \A w \in Workers :
        (Replied(w) /\ NoResults(reply[w].returned))
        => LET rep == reply[w].returned
               canonical == TruthyInt(rep, "canonical_ids")
               failure == TruthyInt(rep, "failure")
           IN  /\ outcome[w]["kind"] \notin {"IndexError", "KeyError"}
               /\ canonical
                    => /\ IsRouterResponse(outcome[w])
                       /\ outcome[w]["status_code"] = 503
               /\ (~canonical /\ failure)
                    => /\ IsRouterFailure(outcome[w])
                       /\ outcome[w]["status_code"] = 500
               /\ (~canonical /\ ~failure)
                    => /\ IsRouterResponse(outcome[w])
                       /\ outcome[w]["status_code"] = 201

\* C17: under fair scheduling of the workers and a gateway client that
\* eventually returns or raises, every dispatch handed to a worker eventually
\* ends with its deferred resolved by a RouterResponse or a RouterFailure.
C17_EventuallyResolved ==
    \A w \in Workers :
        (pc[w] = "queued")
        ~> ( /\ pc[w] = "done"
             /\ IsRouterResponse(outcome[w]) \/ IsRouterFailure(outcome[w]) )

\* the outcome counters of the reply processor
OutcomeDelta ==
    Delta("updates.client.bridge.fcm.failed.rereg")
      + Delta("updates.client.bridge.fcm.failed")
      + Delta("updates.client.bridge.fcm.succeeded")

\* C18: every dispatch calls the gateway client at most once; the step in
\* which the gateway client returns a reply increments attempted once and no
\* outcome counter; the reply processing that follows increments exactly one
\* of failed.rereg, failed, succeeded and not attempted; and whenever no
\* dispatch is in progress attempted = failed.rereg + failed + succeeded.
C18_CounterAccounting ==
    /\ [](\A w \in Workers : Len(fcm_calls[w]) <= 1)
    /\ [][\A w \in Workers :
            /\ (pc[w] = "calling" /\ pc'[w] = "replied")
                 => /\ Delta("updates.client.bridge.fcm.attempted") = 1
                    /\ OutcomeDelta = 0
            /\ RepliesTo(w)
                 => /\ Delta("updates.client.bridge.fcm.attempted") = 0
                    /\ OutcomeDelta = 1]_vars
    /\ []((\A w \in Workers : pc[w] = "idle")
            => metrics["updates.client.bridge.fcm.attempted"]
                 = metrics["updates.client.bridge.fcm.failed.rereg"]
                     + metrics["updates.client.bridge.fcm.failed"]
                     + metrics["updates.client.bridge.fcm.succeeded"])

\* C19: from the moment a dispatch is accepted to the moment it ends, its
\* notification and its router_data stay as they were handed over, and the
\* registry's router_data is not written; in the re-registration branch the
\* stored token is still the one sent to the gateway and the new one is only
\* in the router_data of the returned RouterResponse. amend_endpoint_response
\* leaves router_data as it was and changes nothing of the response but
\* "senderid", set to router_data["creds"]["senderID"], or to None when there
\* are no creds.
C19_DispatchReadsOnly ==
    /\ [][\A w \in Workers :
            /\ pc[w] \in {"queued", "calling", "replied"}
                 => /\ notification'[w] = notification[w]
                    /\ route_data'[w] = route_data[w]
                    /\ router_data' = router_data
            /\ (pc[w] = "idle" /\ pc'[w] = "queued")
                 => /\ route_data'[w] = router_data
                    /\ router_data' = router_data]_vars
    /\ [](\A w \in Workers :
            ( /\ Replied(w)
              /\ TruthyInt(reply[w].returned, "canonical_ids")
              /\ IsRouterResponse(outcome[w]) )
            => /\ route_data[w]["token"] = fcm_calls[w][1]["registration_id"]
               /\ outcome[w]["router_data"]
                    = [token |-> Get(FirstResult(reply[w].returned),
                                     "registration_id", None)])
    /\ [][(response'.called /\ response' # response)
            => /\ router_data' = router_data
               /\ DOMAIN response'.amended
                    = DOMAIN response'.given \cup {"senderid"}
               /\ \A k \in DOMAIN response'.given \ {"senderid"} :
                    response'.amended[k] = response'.given[k]
               /\ response'.amended["senderid"]
                    = IF "creds" \in DOMAIN router_data
                      THEN router_data["creds"]["senderID"]
                      ELSE None]_vars

\* C19 witness: a dispatch ended in the re-registration response carrying the
\* new token while its router_data still holds the old one.
C19_Witness ==
    \E w \in Workers :
        /\ Replied(w)
        /\ IsRouterResponse(outcome[w])
        /\ outcome[w]["status_code"] = 503
        /\ outcome[w]["router_data"] = [token |-> "tok2"]
        /\ route_data[w]["token"] = "tok"
        /\ router_data["token"] = "tok"

\* C19 witness: amend_endpoint_response on a registered client set senderid
\* and kept the response's other key.
C19_WitnessAmend ==
    /\ response.called
    /\ response.given = [channelID |-> "c1"]
    /\ response.amended = [channelID |-> "c1", senderid |-> "sid"]
    /\ "creds" \in DOMAIN router_data

\* C19 witness: amend_endpoint_response without creds set senderid to None.
C19_WitnessNoCreds ==
    /\ response.called
    /\ response.amended["senderid"] = None
    /\ "creds" \notin DOMAIN router_data

\* router_data after the registry applied the router_data of a RouterResponse
Patched(rd, patch) == patch @@ rd

\* C20: in every 503 re-registration response the router_data patch carries a
\* token that is present and non-empty, so that the dispatch retried on the
\* patched router_data passes the token check of _route and is sent to the
\* gateway with registration_id equal to the new token.
C20_RotationKeepsDeliverable ==
    \A w \in Workers :
        ( /\ Replied(w)
          /\ TruthyInt(reply[w].returned, "canonical_ids")
          /\ IsRouterResponse(outcome[w])
          /\ outcome[w]["status_code"] = 503 )
        => LET patch == outcome[w]["router_data"]
               rd == Patched(route_data[w], patch)
               d == _route_data(notification[w], rd)
           IN  /\ "token" \in DOMAIN patch
               /\ patch["token"] \notin {None, ""}
               /\ ~d.raised
               /\ notify_single_device(notification[w], rd, d.data)["registration_id"]
                    = patch["token"]

====
